---- MODULE Spec2Model ----
(***************************************************************************)
(* The event dispatch and answer orchestration of the AI knowledge         *)
(* assistant (controllers/app.js, services/aip-service.js).                *)
(*                                                                         *)
(* One invocation of module.exports.execute is a process: it is created   *)
(* and dispatched by execute, and then advances one awaited call at a     *)
(* time, so that the steps of concurrent invocations interleave at the     *)
(* awaits exactly as they do on the Node.js event loop.  Every awaited     *)
(* collaborator call either resolves or rejects; the ways it may reject    *)
(* are enumerated by Rejections.                                           *)
(*                                                                         *)
(* JavaScript strings the code computes on (message texts, predictions,    *)
(* reply texts) are sequences of one-character strings; identifiers the    *)
(* code only passes around (space, user and message names) are strings.    *)
(***************************************************************************)
EXTENDS Integers, Sequences, FiniteSets, TLC

\* ------------------------------------------------------------------ bounds
MaxEvents == 2          \* events delivered in one behaviour
MaxBackfill == 1        \* messages returned by one listing of a space

\* The slots of the invocations in flight: two events are processed at the
\* same time, a third waits until one of them is done.
Invocations == {1, 2}

Spaces == {"spaces/A"}
Users == {"users/1"}
RedirectUrls == {"https://redirect/done"}
MessageNames == {"spaces/A/messages/1", "spaces/A/messages/2"}
Texts == { <<"h","i">>, <<"w","h","y","?">> }

\* The value of a JavaScript expression that evaluates to undefined, where a
\* string is expected: a sequence that is not a sequence of characters.
undefined == <<"undefined">>

\* Responses the generative backend may produce as the first text part.
PredictTexts ==
  { <<"Y","e","s",".">>, <<"N","o">>, <<"o","h"," ","Y","E","S">>,
    <<"Y","e","s","t","e","r","d","a","y">>, <<"y","e"," ","s">> }

\* ------------------------------------------------------------- event types
EventType ==
  [MESSAGE |-> "MESSAGE", ADDED_TO_SPACE |-> "ADDED_TO_SPACE",
   REMOVED_FROM_SPACE |-> "REMOVED_FROM_SPACE", CARD_CLICKED |-> "CARD_CLICKED"]

\* Type tags Google Chat may send that EventType does not list.
OtherEventTypes == {"WIDGET_UPDATED"}

\* new Message(name, text, createTime)
Message(name, text, time) == [name |-> name, text |-> text, time |-> time]

NoMessage == Message("", <<>>, 0)

\* The creation time of a chat message is fixed when it is posted; an edit
\* keeps it.
CreateTimeOf(name) == IF name = "spaces/A/messages/1" THEN 1 ELSE 2

ChatMessages == { Message(n, t, CreateTimeOf(n)) : n \in MessageNames, t \in Texts }

\* event.message of a MESSAGE event for a chat message.
EventMessage(m) == [name |-> m.name, text |-> m.text, createTime |-> m.time]

Event(type, space, user, redirect, message) ==
  [type |-> type, space |-> space, user |-> user,
   configCompleteRedirectUrl |-> redirect, message |-> message]

NoEvent == Event("", "", "", "", EventMessage(NoMessage))

Events ==
  { Event(EventType.MESSAGE, s, u, r, EventMessage(m)) :
      s \in Spaces, u \in Users, r \in RedirectUrls, m \in ChatMessages }
  \cup
  { Event(t, s, u, r, EventMessage(NoMessage)) :
      t \in {EventType.ADDED_TO_SPACE, EventType.REMOVED_FROM_SPACE,
             EventType.CARD_CLICKED} \cup OtherEventTypes,
      s \in Spaces, u \in Users, r \in RedirectUrls }

\* ------------------------------------------------------------------ errors
Err(name, call) == [name |-> name, call |-> call]

NoError == Err("", "")

\* ----------------------------------------------------------------- replies
\* A reply is the object literal the handler returns: keys is the set of keys
\* the literal has, the other fields are the values of those keys.
NoAction == [type |-> "", url |-> <<>>]

EmptyReply ==
  [keys |-> {}, text |-> undefined, thread |-> "undefined",
   accessoryWidgets |-> <<>>, actionResponse |-> NoAction]

TextReply(text) ==
  [EmptyReply EXCEPT !.keys = {"text"}, !.text = text]

\* services/user-auth.js generateAuthUrl(userName, redirectUrl): the URL is
\* built from its two arguments and nothing else.
generateAuthUrl(userName, redirectUrl) == <<"authorize", userName, redirectUrl>>

RequestConfigReply(url) ==
  [EmptyReply EXCEPT !.keys = {"actionResponse"},
                     !.actionResponse = [type |-> "REQUEST_CONFIG", url |-> url]]

WelcomeText ==
  <<"T","h","a","n","k"," ","y","o","u"," ","f","o","r"," ","a","d","d","i",
    "n","g"," ","m","e"," ","t","o"," ","t","h","i","s"," ","s","p","a","c",
    "e","."," ","I"," ","h","e","l","p"," ","a","n","s","w","e","r"," ","q",
    "u","e","s","t","i","o","n","s"," ","b","a","s","e","d"," ","o","n"," ",
    "p","a","s","t"," ","c","o","n","v","e","r","s","a","t","i","o","n"," ",
    "i","n"," ","t","h","i","s"," ","s","p","a","c","e","."," ","G","o"," ",
    "a","h","e","a","d"," ","a","n","d"," ","a","s","k"," ","m","e"," ","a",
    " ","q","u","e","s","t","i","o","n","!">>

GetHelpButton ==
  [icon |-> "contact_support", text |-> "Get help",
   altText |-> "Get additional help from a space manager",
   onClick |-> "doContactSupport"]

\* The answer reply without thread: null.
AnswerReply_threaded(responseText) ==
  [EmptyReply EXCEPT
     !.keys = {"text", "accessoryWidgets"},
     !.text = responseText,
     !.accessoryWidgets = << [buttonList |-> [buttons |-> <<GetHelpButton>>]] >>]

AnswerReply(responseText) ==
  [EmptyReply EXCEPT
     !.keys = {"text", "thread", "accessoryWidgets"},
     !.text = responseText,
     !.thread = "null",
     !.accessoryWidgets = << [buttonList |-> [buttons |-> <<GetHelpButton>>]] >>]

\* --------------------------------------------------------------- the store
\* FirestoreService keeps one document per space and, under it, one document
\* per message, keyed by the message name.

RECURSIVE IndexOfName(_, _, _)
IndexOfName(msgs, name, k) ==
  IF k > Len(msgs) THEN 0
  ELSE IF msgs[k].name = name THEN k
  ELSE IndexOfName(msgs, name, k + 1)

\* FirestoreService.createOrUpdateMessage on the messages of one space.
createOrUpdateMessage(msgs, message) ==
  LET k == IndexOfName(msgs, message.name, 1) IN
    IF k = 0 THEN Append(msgs, message) ELSE [msgs EXCEPT ![k] = message]

\* FirestoreService.createOrUpdateMessages on the messages of one space.
RECURSIVE createOrUpdateMessages(_, _)
createOrUpdateMessages(msgs, list) ==
  IF list = <<>> THEN msgs
  ELSE createOrUpdateMessages(createOrUpdateMessage(msgs, Head(list)), Tail(list))

\* FirestoreService.createSpace on the set of space documents.
createSpace(docs, spaceName) == docs \cup {spaceName}

\* FirestoreService.deleteSpace: the space document and its messages.
deleteSpaceDoc(docs, spaceName) == docs \ {spaceName}

\* What UserAuthChatService.listUserMessages may return for a space: up to
\* MaxBackfill messages with distinct names.
RECURSIVE Listings(_)
Listings(n) ==
  IF n = 0 THEN { <<>> }
  ELSE LET shorter == Listings(n - 1) IN
    shorter \cup
    { Append(l, m) : l \in { x \in shorter : Len(x) = n - 1 },
                     m \in ChatMessages }

HasDistinctNames(msgs) ==
  \A a, b \in 1..Len(msgs) : msgs[a].name = msgs[b].name => a = b

ChatListings == { l \in Listings(MaxBackfill) : HasDistinctNames(l) }

\* ---------------------------------------------------------- the AI service
\* String.prototype.toLowerCase, character by character.
LowerChar(c) ==
  CASE c = "Y" -> "y" [] c = "E" -> "e" [] c = "S" -> "s"
    [] c = "N" -> "n" [] c = "O" -> "o" [] OTHER -> c

toLowerCase(str) == [k \in 1..Len(str) |-> LowerChar(str[k])]

\* String.prototype.includes.
includes(str, sub) ==
  \E k \in 0..(Len(str) - Len(sub)) :
    \A j \in 1..Len(sub) : str[k + j] = sub[j]

\* Array.prototype.join.
RECURSIVE join(_, _)
join(strs, sep) ==
  IF Len(strs) = 0 THEN <<>>
  ELSE IF Len(strs) = 1 THEN strs[1]
  ELSE strs[1] \o sep \o join(Tail(strs), sep)

\* A prompt is its template with the values interpolated into it.
Prompt(template, messageText, question) ==
  [template |-> template, messageText |-> messageText, question |-> question]

\* What generativeModel.generateContent may do: reject, or resolve to a result
\* whose response has a list of candidates, each with a list of parts.
GenerateErrors == {"Error", "InvalidTokenException"}

Candidate(parts) == [content |-> [parts |-> parts]]

GenerateResults ==
  { [rejected |-> TRUE, error |-> e, candidates |-> <<>>] : e \in GenerateErrors }
  \cup
  { [rejected |-> FALSE, error |-> "", candidates |-> c] :
      c \in { <<>>, << Candidate(<<>>) >>, << Candidate(<< [text |-> undefined] >>) >> }
            \cup { << Candidate(<< [text |-> t] >>) >> : t \in PredictTexts } }

\* The outcome of an awaited call: it threw error, or it returned value.
Threw(name, call) == [threw |-> TRUE, error |-> Err(name, call)]

Returned(value) == [threw |-> FALSE, error |-> NoError, value |-> value]

\* AIPService.callPredict, given what generateContent does.
callPredict(prompt, result) ==
  IF result.rejected THEN Threw(result.error, "generateContent")
  ELSE IF Len(result.candidates) = 0 THEN Threw("TypeError", "callPredict")
  ELSE IF Len(result.candidates[1].content.parts) = 0
    THEN Threw("TypeError", "callPredict")
  ELSE Returned(result.candidates[1].content.parts[1].text)

\* containsQuestion matching the response as the backend wrote it.
containsQuestion_caseSensitive(message, result) ==
  LET prompt == Prompt("containsQuestion", <<>>, message)
      response == callPredict(prompt, result)
  IN IF response.threw THEN response
     ELSE IF response.value = undefined THEN Threw("TypeError", "containsQuestion")
     ELSE Returned(includes(response.value, <<"y","e","s">>))

\* AIPService.containsQuestion
containsQuestion(message, result) ==
  LET prompt == Prompt("containsQuestion", <<>>, message)
      response == callPredict(prompt, result)
  IN IF response.threw THEN response
     ELSE IF response.value = undefined THEN Threw("TypeError", "containsQuestion")
     ELSE Returned(includes(toLowerCase(response.value), <<"y","e","s">>))

\* answerQuestion joining the texts with a single line break.
answerQuestionPrompt_singleBreak(question, msgs) ==
  LET messageText == join([k \in 1..Len(msgs) |-> msgs[k].text], <<"\n">>)
  IN Prompt("answerQuestion", messageText, question)

\* AIPService.answerQuestion
answerQuestionPrompt(question, msgs) ==
  LET messageText == join([k \in 1..Len(msgs) |-> msgs[k].text], <<"\n","\n">>)
  IN Prompt("answerQuestion", messageText, question)

answerQuestion(question, msgs, result) ==
  callPredict(answerQuestionPrompt(question, msgs), result)

\* ---------------------------------------------------------------- the state
VARIABLES
  spaces,         \* the store: names of the spaces that have a document
  messages,       \* the store: per space, its message documents in list order
  subscriptions,  \* the event subscriptions, as [space, user]
  authorized,     \* the users the app holds a refresh token for
  inv,            \* the invocations of execute, by slot
  nEvents         \* events delivered so far

vars == <<spaces, messages, subscriptions, authorized, inv, nEvents>>

store == <<spaces, messages>>

\* A slot no invocation uses.
Idle ==
  [pc |-> "idle", event |-> NoEvent,
   spaceName |-> "", userName |-> "", configCompleteRedirectUrl |-> "",
   calls |-> <<>>,            \* collaborator calls made so far, in order
   raised |-> NoError,        \* what the rejected call rejected with
   raisedAt |-> 0,            \* the position in calls of the rejected call
   error |-> NoError,         \* what the invocation rejects with
   reply |-> EmptyReply,      \* what the invocation resolves to
   messages |-> <<>>,         \* handleAddedToSpace: const messages
   hasQuestion |-> FALSE,     \* handleMessage: const hasQuestion
   allMessages |-> <<>>,      \* handleMessage: const allMessages
   prompt |-> <<>>,           \* the prompt the last step sent, if it sent one
   prediction |-> <<>>,       \* what callPredict returned to the last step
   spaceManager |-> <<>>]     \* what listSpaceManager resolved to in the last step

\* new ChatApp(event)
ChatApp(event) ==
  [Idle EXCEPT !.pc = "execute", !.event = event,
               !.spaceName = event.space,
               !.userName = event.user,
               !.configCompleteRedirectUrl = event.configCompleteRedirectUrl]

Init ==
  /\ spaces = {}
  /\ messages = [s \in Spaces |-> <<>>]
  /\ subscriptions = {}
  /\ authorized = {}
  /\ inv = [i \in Invocations |-> Idle]
  /\ nEvents = 0

\* ------------------------------------------------- how awaited calls reject
\* The calls made with the credentials of the user.
DelegatedCalls == {"listUserMessages", "createSpaceSubscription"}

\* The calls a handler makes inside a try block whose catch tests for
\* InvalidTokenException.
GuardedCalls ==
  {"listUserMessages", "createOrUpdateMessages", "createSpaceSubscription",
   "createOrUpdateMessage", "containsQuestion", "listMessages", "answerQuestion"}

\* The names of the errors a call may reject with.  A delegated call rejects
\* with InvalidTokenException exactly when there is no refresh token for the
\* user; any call may reject with another error; the store and AI calls that
\* a handler guards may reject with either.
Rejections(call, userName) ==
  IF call \in DelegatedCalls
    THEN IF userName \in authorized THEN {"Error"} ELSE {"InvalidTokenException"}
  ELSE IF call \in GuardedCalls THEN {"Error", "InvalidTokenException"}
  ELSE {"Error"}

\* Whether the call may resolve.
Resolves(call, userName) == call \in DelegatedCalls => userName \in authorized

\* ------------------------------------------------- the steps of a handler
\* The next awaited call of the handler is made.
Call(c, name) ==
  [c EXCEPT !.calls = Append(@, name), !.prompt = <<>>, !.prediction = <<>>,
            !.spaceManager = <<>>]

\* The handler is left: its local constants are gone.
Leave(c) ==
  [c EXCEPT !.messages = <<>>, !.hasQuestion = FALSE, !.allMessages = <<>>]

Return(c, reply) == [Leave(c) EXCEPT !.pc = "returned", !.reply = reply]

Throw(c, e) == [Leave(c) EXCEPT !.pc = "thrown", !.error = e]

Raise(c, e) == [c EXCEPT !.raised = e, !.raisedAt = Len(c.calls)]

Goto(c, pc) == [c EXCEPT !.pc = pc]

\* The caller takes the outcome of the invocation.
Complete(i) ==
  /\ inv[i].pc \in {"returned", "thrown"}
  /\ inv' = [inv EXCEPT ![i] = Idle]
  /\ UNCHANGED <<spaces, messages, subscriptions, authorized, nEvents>>

\* The user completes the OAuth flow: the app now holds a refresh token.
Authorize(u) ==
  /\ u \notin authorized
  /\ authorized' = authorized \cup {u}
  /\ UNCHANGED <<spaces, messages, subscriptions, inv, nEvents>>

\* The refresh token of the user is removed: the user revoked the access.
Revoke(u) ==
  /\ u \in authorized
  /\ authorized' = authorized \ {u}
  /\ UNCHANGED <<spaces, messages, subscriptions, inv, nEvents>>

\* dispatch with the default arm falling through to the card handler.
dispatch_fallThrough(c) ==
  CASE c.event.type = EventType.ADDED_TO_SPACE -> Goto(c, "createSpace")
    [] c.event.type = EventType.MESSAGE -> Goto(c, "createOrUpdateMessage")
    [] c.event.type = EventType.REMOVED_FROM_SPACE -> Goto(c, "deleteSpaceSubscriptions")
    [] OTHER -> Goto(c, "listSpaceManager")

\* ChatApp.execute: the switch on the type of the event.
dispatch(c) ==
  CASE c.event.type = EventType.ADDED_TO_SPACE -> Goto(c, "createSpace")
    [] c.event.type = EventType.MESSAGE -> Goto(c, "createOrUpdateMessage")
    [] c.event.type = EventType.REMOVED_FROM_SPACE -> Goto(c, "deleteSpaceSubscriptions")
    [] c.event.type = EventType.CARD_CLICKED -> Goto(c, "listSpaceManager")
    [] OTHER -> Return(c, EmptyReply)

\* module.exports.execute: an event arrives, the app is constructed for it and
\* ChatApp.execute dispatches it, up to the first await of the handler.  The
\* invocation takes the first free slot.
execute(i) ==
  /\ inv[i].pc = "idle"
  /\ \A j \in Invocations : j < i => inv[j].pc # "idle"
  /\ nEvents < MaxEvents
  /\ \E event \in Events : inv' = [inv EXCEPT ![i] = dispatch(ChatApp(event))]
  /\ nEvents' = nEvents + 1
  /\ UNCHANGED <<spaces, messages, subscriptions, authorized>>

\* ------------------------------------------------------ handleAddedToSpace
\* The catch block with the arguments of generateAuthUrl exchanged.
handleAddedToSpace_catch_swappedUrl(c, e) ==
  IF e.name = "InvalidTokenException"
    THEN Return(c, RequestConfigReply(
                     generateAuthUrl(c.configCompleteRedirectUrl, c.userName)))
    ELSE Throw(c, e)

\* The catch block as a catch-all: every error asks for authorization.
handleAddedToSpace_catch_catchAll(c, e) ==
  Return(c, RequestConfigReply(
              generateAuthUrl(c.userName, c.configCompleteRedirectUrl)))

\* The catch block of handleAddedToSpace.
handleAddedToSpace_catch(c, e) ==
  IF e.name = "InvalidTokenException"
    THEN Return(c, RequestConfigReply(
                     generateAuthUrl(c.userName, c.configCompleteRedirectUrl)))
    ELSE Throw(c, e)

\* The welcome reply with another text.
handleAddedToSpace_welcome_otherText(c) ==
  Return(c, TextReply(<<"W","e","l","c","o","m","e","!">>))

\* The reply of handleAddedToSpace after the try block.
handleAddedToSpace_welcome(c) == Return(c, TextReply(WelcomeText))

\* await FirestoreService.createSpace(this.spaceName), before the try block.
handleAddedToSpace_createSpace(i) ==
  /\ inv[i].pc = "createSpace"
  /\ LET c == Call(inv[i], "createSpace") IN
       \/ /\ spaces' = createSpace(spaces, c.spaceName)
          /\ inv' = [inv EXCEPT ![i] = Goto(c, "listUserMessages")]
       \/ /\ \E name \in Rejections("createSpace", c.userName) :
               LET e == Err(name, "createSpace") IN
                 inv' = [inv EXCEPT ![i] = Throw(Raise(c, e), e)]
          /\ UNCHANGED spaces
  /\ UNCHANGED <<messages, subscriptions, authorized, nEvents>>

\* A handler that takes the space document back when the listing rejects.
handleAddedToSpace_listUserMessages_rollback(i) ==
  /\ inv[i].pc = "listUserMessages"
  /\ LET c == Call(inv[i], "listUserMessages") IN
       \/ /\ Resolves("listUserMessages", c.userName)
          /\ \E listing \in ChatListings :
               inv' = [inv EXCEPT ![i] =
                         Goto([c EXCEPT !.messages = listing], "createOrUpdateMessages")]
          /\ UNCHANGED spaces
       \/ /\ \E name \in Rejections("listUserMessages", c.userName) :
               LET e == Err(name, "listUserMessages") IN
                 inv' = [inv EXCEPT ![i] = handleAddedToSpace_catch(Raise(c, e), e)]
          /\ spaces' = deleteSpaceDoc(spaces, c.spaceName)
  /\ UNCHANGED <<messages, subscriptions, authorized, nEvents>>

\* const messages = await UserAuthChatService.listUserMessages(...)
handleAddedToSpace_listUserMessages(i) ==
  /\ inv[i].pc = "listUserMessages"
  /\ LET c == Call(inv[i], "listUserMessages") IN
       \/ /\ Resolves("listUserMessages", c.userName)
          /\ \E listing \in ChatListings :
               inv' = [inv EXCEPT ![i] =
                         Goto([c EXCEPT !.messages = listing], "createOrUpdateMessages")]
       \/ \E name \in Rejections("listUserMessages", c.userName) :
            LET e == Err(name, "listUserMessages") IN
              inv' = [inv EXCEPT ![i] = handleAddedToSpace_catch(Raise(c, e), e)]
  /\ UNCHANGED <<spaces, messages, subscriptions, authorized, nEvents>>

\* The backfill replacing the stored messages by the listed ones.
handleAddedToSpace_createOrUpdateMessages_replace(i) ==
  /\ inv[i].pc = "createOrUpdateMessages"
  /\ LET c == Call(inv[i], "createOrUpdateMessages") IN
       \/ /\ messages' = [messages EXCEPT ![c.spaceName] = c.messages]
          /\ inv' = [inv EXCEPT ![i] = Goto(c, "createSpaceSubscription")]
       \/ /\ \E name \in Rejections("createOrUpdateMessages", c.userName) :
               LET e == Err(name, "createOrUpdateMessages") IN
                 inv' = [inv EXCEPT ![i] = handleAddedToSpace_catch(Raise(c, e), e)]
          /\ UNCHANGED messages
  /\ UNCHANGED <<spaces, subscriptions, authorized, nEvents>>

\* await FirestoreService.createOrUpdateMessages(this.spaceName, messages)
handleAddedToSpace_createOrUpdateMessages(i) ==
  /\ inv[i].pc = "createOrUpdateMessages"
  /\ LET c == Call(inv[i], "createOrUpdateMessages") IN
       \/ /\ messages' = [messages EXCEPT ![c.spaceName] =
                            createOrUpdateMessages(@, c.messages)]
          /\ inv' = [inv EXCEPT ![i] = Goto(c, "createSpaceSubscription")]
       \/ /\ \E name \in Rejections("createOrUpdateMessages", c.userName) :
               LET e == Err(name, "createOrUpdateMessages") IN
                 inv' = [inv EXCEPT ![i] = handleAddedToSpace_catch(Raise(c, e), e)]
          /\ UNCHANGED messages
  /\ UNCHANGED <<spaces, subscriptions, authorized, nEvents>>

\* await UserAuthEventsService.createSpaceSubscription(...), then the welcome
\* reply.
handleAddedToSpace_createSpaceSubscription(i) ==
  /\ inv[i].pc = "createSpaceSubscription"
  /\ LET c == Call(inv[i], "createSpaceSubscription") IN
       \/ /\ Resolves("createSpaceSubscription", c.userName)
          /\ subscriptions' = subscriptions \cup
                                {[space |-> c.spaceName, user |-> c.userName]}
          /\ inv' = [inv EXCEPT ![i] = handleAddedToSpace_welcome(c)]
       \/ /\ \E name \in Rejections("createSpaceSubscription", c.userName) :
               LET e == Err(name, "createSpaceSubscription") IN
                 inv' = [inv EXCEPT ![i] = handleAddedToSpace_catch(Raise(c, e), e)]
          /\ UNCHANGED subscriptions
  /\ UNCHANGED <<spaces, messages, authorized, nEvents>>

handleAddedToSpace(i) ==
  \/ handleAddedToSpace_createSpace(i)
  \/ handleAddedToSpace_listUserMessages(i)
  \/ handleAddedToSpace_createOrUpdateMessages(i)
  \/ handleAddedToSpace_createSpaceSubscription(i)

\* ----------------------------------------------------------- handleMessage
\* The catch block asking for authorization in a text reply.
handleMessage_catch_withText(c, e) ==
  IF e.name = "InvalidTokenException"
    THEN Return(c, [TextReply(WelcomeText) EXCEPT
                      !.keys = {"text", "actionResponse"},
                      !.actionResponse =
                        [type |-> "REQUEST_CONFIG",
                         url |-> generateAuthUrl(c.userName,
                                                 c.configCompleteRedirectUrl)]])
    ELSE Throw(c, e)

\* The catch block testing for a name no error has.
handleMessage_catch_wrongName(c, e) ==
  IF e.name = "InvalidTokenError"
    THEN Return(c, RequestConfigReply(
                     generateAuthUrl(c.userName, c.configCompleteRedirectUrl)))
    ELSE Throw(c, e)

\* The catch block of handleMessage.
handleMessage_catch(c, e) ==
  IF e.name = "InvalidTokenException"
    THEN Return(c, RequestConfigReply(
                     generateAuthUrl(c.userName, c.configCompleteRedirectUrl)))
    ELSE Throw(c, e)

\* The message saved under the name of the space.
handleMessage_newMessage_spaceKey(c) ==
  Message(c.spaceName, c.event.message.text, c.event.message.createTime)

\* The message handleMessage saves.
handleMessage_newMessage(c) ==
  Message(c.event.message.name, c.event.message.text, c.event.message.createTime)

\* createOrUpdateMessage not awaited: the handler goes on before the message
\* is saved.
handleMessage_createOrUpdateMessage_notAwaited(i) ==
  /\ inv[i].pc = "createOrUpdateMessage"
  /\ inv' = [inv EXCEPT ![i] = Goto(Call(inv[i], "createOrUpdateMessage"),
                                    "containsQuestion")]
  /\ UNCHANGED <<spaces, messages, subscriptions, authorized, nEvents>>

\* The handler writing the message as the only message of the space.
handleMessage_createOrUpdateMessage_overwrite(i) ==
  /\ inv[i].pc = "createOrUpdateMessage"
  /\ LET c == Call(inv[i], "createOrUpdateMessage") IN
       \/ /\ messages' = [messages EXCEPT ![c.spaceName] =
                            <<handleMessage_newMessage(c)>>]
          /\ inv' = [inv EXCEPT ![i] = Goto(c, "containsQuestion")]
       \/ /\ \E name \in Rejections("createOrUpdateMessage", c.userName) :
               LET e == Err(name, "createOrUpdateMessage") IN
                 inv' = [inv EXCEPT ![i] = handleMessage_catch(Raise(c, e), e)]
          /\ UNCHANGED messages
  /\ UNCHANGED <<spaces, subscriptions, authorized, nEvents>>

\* await FirestoreService.createOrUpdateMessage(this.spaceName, new Message(...))
handleMessage_createOrUpdateMessage(i) ==
  /\ inv[i].pc = "createOrUpdateMessage"
  /\ LET c == Call(inv[i], "createOrUpdateMessage") IN
       \/ /\ messages' = [messages EXCEPT ![c.spaceName] =
                            createOrUpdateMessage(@, handleMessage_newMessage(c))]
          /\ inv' = [inv EXCEPT ![i] = Goto(c, "containsQuestion")]
       \/ /\ \E name \in Rejections("createOrUpdateMessage", c.userName) :
               LET e == Err(name, "createOrUpdateMessage") IN
                 inv' = [inv EXCEPT ![i] = handleMessage_catch(Raise(c, e), e)]
          /\ UNCHANGED messages
  /\ UNCHANGED <<spaces, subscriptions, authorized, nEvents>>

\* handleMessage without the early return for a message that is no question.
handleMessage_afterContainsQuestion_noReturn(c, out) ==
  IF out.threw THEN handleMessage_catch(Raise(c, out.error), out.error)
  ELSE Goto([c EXCEPT !.hasQuestion = out.value], "listMessages")

\* What handleMessage does with the outcome of containsQuestion.
handleMessage_afterContainsQuestion(c, out) ==
  IF out.threw THEN handleMessage_catch(Raise(c, out.error), out.error)
  ELSE IF ~out.value THEN Return([c EXCEPT !.hasQuestion = out.value], EmptyReply)
  ELSE Goto([c EXCEPT !.hasQuestion = out.value], "listMessages")

\* The prompt and the prediction of one callPredict, recorded.
Predicted(c, prompt, result) ==
  LET p == callPredict(prompt, result) IN
    [c EXCEPT !.prompt = <<prompt>>,
              !.prediction = IF p.threw THEN <<>> ELSE <<p.value>>]

\* const hasQuestion = await AIPService.containsQuestion(this.event.message.text)
handleMessage_containsQuestion(i) ==
  /\ inv[i].pc = "containsQuestion"
  /\ \E result \in GenerateResults :
       LET text == inv[i].event.message.text
           c == Predicted(Call(inv[i], "containsQuestion"),
                          Prompt("containsQuestion", <<>>, text), result)
       IN inv' = [inv EXCEPT ![i] =
                    handleMessage_afterContainsQuestion(c, containsQuestion(text, result))]
  /\ UNCHANGED <<spaces, messages, subscriptions, authorized, nEvents>>

\* const allMessages = await FirestoreService.listMessages(this.spaceName)
handleMessage_listMessages(i) ==
  /\ inv[i].pc = "listMessages"
  /\ LET c == Call(inv[i], "listMessages") IN
       \/ inv' = [inv EXCEPT ![i] =
                    Goto([c EXCEPT !.allMessages = messages[c.spaceName]],
                         "answerQuestion")]
       \/ \E name \in Rejections("listMessages", c.userName) :
            LET e == Err(name, "listMessages") IN
              inv' = [inv EXCEPT ![i] = handleMessage_catch(Raise(c, e), e)]
  /\ UNCHANGED <<spaces, messages, subscriptions, authorized, nEvents>>

\* What handleMessage does with the outcome of answerQuestion.
handleMessage_afterAnswerQuestion(c, out) ==
  IF out.threw THEN handleMessage_catch(Raise(c, out.error), out.error)
  ELSE Return(c, AnswerReply(out.value))

\* const responseText = await AIPService.answerQuestion(text, allMessages),
\* then the reply with the help button.
handleMessage_answerQuestion(i) ==
  /\ inv[i].pc = "answerQuestion"
  /\ \E result \in GenerateResults :
       LET text == inv[i].event.message.text
           c == Predicted(Call(inv[i], "answerQuestion"),
                          answerQuestionPrompt(text, inv[i].allMessages), result)
       IN inv' = [inv EXCEPT ![i] =
                    handleMessage_afterAnswerQuestion(
                      c, answerQuestion(text, c.allMessages, result))]
  /\ UNCHANGED <<spaces, messages, subscriptions, authorized, nEvents>>

handleMessage(i) ==
  \/ handleMessage_createOrUpdateMessage(i)
  \/ handleMessage_containsQuestion(i)
  \/ handleMessage_listMessages(i)
  \/ handleMessage_answerQuestion(i)

\* -------------------------------------------------- handleRemovedFromSpace
\* deleteSpaceSubscriptions with its rejection swallowed: the handler goes on
\* to delete the space.
handleRemovedFromSpace_deleteSpaceSubscriptions_swallow(i) ==
  /\ inv[i].pc = "deleteSpaceSubscriptions"
  /\ LET c == Call(inv[i], "deleteSpaceSubscriptions") IN
       \/ /\ subscriptions' = { s \in subscriptions : s.space # c.spaceName }
          /\ inv' = [inv EXCEPT ![i] = Goto(c, "deleteSpace")]
       \/ /\ \E name \in Rejections("deleteSpaceSubscriptions", c.userName) :
               LET e == Err(name, "deleteSpaceSubscriptions") IN
                 inv' = [inv EXCEPT ![i] = Goto(Raise(c, e), "deleteSpace")]
          /\ UNCHANGED subscriptions
  /\ UNCHANGED <<spaces, messages, authorized, nEvents>>

\* deleteSpaceSubscriptions made with the credentials of the user.
handleRemovedFromSpace_deleteSpaceSubscriptions_delegated(i) ==
  /\ inv[i].pc = "deleteSpaceSubscriptions"
  /\ LET c == Call(inv[i], "deleteSpaceSubscriptions") IN
       \/ /\ c.userName \in authorized
          /\ subscriptions' = { s \in subscriptions : s.space # c.spaceName }
          /\ inv' = [inv EXCEPT ![i] = Goto(c, "deleteSpace")]
       \/ /\ \E name \in Rejections("createSpaceSubscription", c.userName) :
               LET e == Err(name, "deleteSpaceSubscriptions") IN
                 inv' = [inv EXCEPT ![i] = Throw(Raise(c, e), e)]
          /\ UNCHANGED subscriptions
  /\ UNCHANGED <<spaces, messages, authorized, nEvents>>

\* await AppAuthEventsService.deleteSpaceSubscriptions(this.spaceName)
handleRemovedFromSpace_deleteSpaceSubscriptions(i) ==
  /\ inv[i].pc = "deleteSpaceSubscriptions"
  /\ LET c == Call(inv[i], "deleteSpaceSubscriptions") IN
       \/ /\ subscriptions' = { s \in subscriptions : s.space # c.spaceName }
          /\ inv' = [inv EXCEPT ![i] = Goto(c, "deleteSpace")]
       \/ /\ \E name \in Rejections("deleteSpaceSubscriptions", c.userName) :
               LET e == Err(name, "deleteSpaceSubscriptions") IN
                 inv' = [inv EXCEPT ![i] = Throw(Raise(c, e), e)]
          /\ UNCHANGED subscriptions
  /\ UNCHANGED <<spaces, messages, authorized, nEvents>>

\* await FirestoreService.deleteSpace(this.spaceName); return {}
handleRemovedFromSpace_deleteSpace(i) ==
  /\ inv[i].pc = "deleteSpace"
  /\ LET c == Call(inv[i], "deleteSpace") IN
       \/ /\ spaces' = deleteSpaceDoc(spaces, c.spaceName)
          /\ messages' = [messages EXCEPT ![c.spaceName] = <<>>]
          /\ inv' = [inv EXCEPT ![i] = Return(c, EmptyReply)]
       \/ /\ \E name \in Rejections("deleteSpace", c.userName) :
               LET e == Err(name, "deleteSpace") IN
                 inv' = [inv EXCEPT ![i] = Throw(Raise(c, e), e)]
          /\ UNCHANGED <<spaces, messages>>
  /\ UNCHANGED <<subscriptions, authorized, nEvents>>

handleRemovedFromSpace(i) ==
  \/ handleRemovedFromSpace_deleteSpaceSubscriptions(i)
  \/ handleRemovedFromSpace_deleteSpace(i)

\* ---------------------------------------------------- handleCardClickEvent
PleaseAnswerText ==
  <<"P","l","e","a","s","e"," ","a","n","s","w","e","r"," ","t","h","e"," ",
    "q","u","e","s","t","i","o","n"," ","a","b","o","v","e",".">>

\* What AppAuthChatService.listSpaceManager may resolve to: the name of a
\* space manager, or no name.
SpaceManagers == { undefined, <<"u","s","e","r","s","/","9">> }

\* The text with the space manager named, not mentioned.
handleCardClickEvent_text_noMention(spaceManagerName) ==
  IF spaceManagerName # undefined /\ spaceManagerName # <<>>
    THEN spaceManagerName \o <<" ">> \o PleaseAnswerText
    ELSE PleaseAnswerText

\* The text handleCardClickEvent replies with.
handleCardClickEvent_text(spaceManagerName) ==
  IF spaceManagerName # undefined /\ spaceManagerName # <<>>
    THEN <<"<">> \o spaceManagerName \o <<">", " ">> \o PleaseAnswerText
    ELSE PleaseAnswerText

\* const spaceManagerName = await AppAuthChatService.listSpaceManager(...)
handleCardClickEvent(i) ==
  /\ inv[i].pc = "listSpaceManager"
  /\ LET c == Call(inv[i], "listSpaceManager") IN
       \/ \E spaceManagerName \in SpaceManagers :
            inv' = [inv EXCEPT ![i] =
                      Return([c EXCEPT !.spaceManager = <<spaceManagerName>>],
                             TextReply(handleCardClickEvent_text(spaceManagerName)))]
       \/ \E name \in Rejections("listSpaceManager", c.userName) :
            LET e == Err(name, "listSpaceManager") IN
              inv' = [inv EXCEPT ![i] = Throw(Raise(c, e), e)]
  /\ UNCHANGED <<spaces, messages, subscriptions, authorized, nEvents>>

\* ------------------------------------------------------- the specification
Next ==
  \/ \E i \in Invocations : execute(i)
  \/ \E i \in Invocations : handleAddedToSpace(i)
  \/ \E i \in Invocations : handleMessage(i)
  \/ \E i \in Invocations : handleRemovedFromSpace(i)
  \/ \E i \in Invocations : handleCardClickEvent(i)
  \/ \E i \in Invocations : Complete(i)
  \/ \E u \in Users : Authorize(u)
  \/ \E u \in Users : Revoke(u)

Spec == Init /\ [][Next]_vars

\* ------------------------------------------------------------ properties
Finished(c) == c.pc \in {"returned", "thrown"}

RecognizedTypes == { EventType[k] : k \in DOMAIN EventType }

AddedToSpaceCalls ==
  <<"createSpace", "listUserMessages", "createOrUpdateMessages",
    "createSpaceSubscription">>

MessageCalls ==
  <<"createOrUpdateMessage", "containsQuestion", "listMessages", "answerQuestion">>

RemovedFromSpaceCalls == <<"deleteSpaceSubscriptions", "deleteSpace">>

IsPrefix(a, b) == Len(a) <= Len(b) /\ a = SubSeq(b, 1, Len(a))

RequestConfig(c) ==
  [type |-> "REQUEST_CONFIG",
   url |-> generateAuthUrl(c.event.user, c.event.configCompleteRedirectUrl)]

\* C1: an event whose type is none of ADDED_TO_SPACE, MESSAGE,
\* REMOVED_FROM_SPACE and CARD_CLICKED is answered with the empty reply {}
\* at once: the invocation makes no collaborator call and the step that
\* handles it leaves the store, the subscriptions and the tokens as they were.
C1_UnrecognizedTypeEmptyReply ==
  /\ [](\A i \in Invocations :
          (inv[i].pc # "idle" /\ inv[i].event.type \notin RecognizedTypes)
          => /\ inv[i].pc = "returned"
             /\ inv[i].reply = EmptyReply
             /\ inv[i].calls = <<>>)
  /\ [][\A i \in Invocations :
          (inv[i].pc = "idle" /\ inv'[i].pc # "idle"
             /\ inv'[i].event.type \notin RecognizedTypes)
          => /\ inv'[i].pc = "returned"
             /\ <<spaces, messages, subscriptions, authorized>>' =
                  <<spaces, messages, subscriptions, authorized>>]_vars

C1_Witness ==
  \E i \in Invocations :
    /\ inv[i].event.type \in OtherEventTypes
    /\ inv[i].pc = "returned"
    /\ inv[i].reply.keys = {}

\* C2: a space-joined invocation in which createSpace, listUserMessages,
\* createOrUpdateMessages and createSpaceSubscription all resolved returns
\* exactly the welcome text reply, with no actionResponse.
C2_JoinedWelcome ==
  \A i \in Invocations :
    LET c == inv[i] IN
      (c.event.type = EventType.ADDED_TO_SPACE
         /\ c.calls = AddedToSpaceCalls /\ c.raised = NoError)
      => /\ c.pc = "returned"
         /\ c.reply.keys = {"text"}
         /\ c.reply.text = WelcomeText
         /\ c.reply.actionResponse = NoAction

C2_Witness ==
  \E i \in Invocations :
    /\ inv[i].event.type = EventType.ADDED_TO_SPACE
    /\ inv[i].calls = AddedToSpaceCalls
    /\ inv[i].raised = NoError
    /\ inv[i].reply.text = WelcomeText

\* C3: a space-joined invocation whose listUserMessages or
\* createSpaceSubscription rejected with InvalidTokenException returns the
\* REQUEST_CONFIG reply with the URL generated from the user and the redirect
\* URL of the event (so equal inputs give equal URLs), and makes no call after
\* the rejected one: when the listing rejected, neither
\* createOrUpdateMessages nor createSpaceSubscription is called.
C3_JoinedMissingCredential ==
  /\ \A i \in Invocations :
       LET c == inv[i] IN
         (c.event.type = EventType.ADDED_TO_SPACE
            /\ c.raised.name = "InvalidTokenException"
            /\ c.raised.call \in {"listUserMessages", "createSpaceSubscription"})
         => /\ c.pc = "returned"
            /\ c.reply.keys = {"actionResponse"}
            /\ c.reply.actionResponse = RequestConfig(c)
            /\ c.raised.call = "listUserMessages"
                 => c.calls = <<"createSpace", "listUserMessages">>
            /\ c.raised.call = "createSpaceSubscription"
                 => c.calls = AddedToSpaceCalls
  /\ \A i, j \in Invocations :
       (/\ inv[i].reply.actionResponse.type = "REQUEST_CONFIG"
        /\ inv[j].reply.actionResponse.type = "REQUEST_CONFIG"
        /\ inv[i].event.user = inv[j].event.user
        /\ inv[i].event.configCompleteRedirectUrl =
             inv[j].event.configCompleteRedirectUrl)
       => inv[i].reply.actionResponse.url = inv[j].reply.actionResponse.url

C3_Witness ==
  \E i \in Invocations :
    /\ inv[i].event.type = EventType.ADDED_TO_SPACE
    /\ inv[i].raised = Err("InvalidTokenException", "listUserMessages")
    /\ inv[i].reply.actionResponse.type = "REQUEST_CONFIG"

\* Reachability of the other case of C3: the listing resolved and the
\* subscription rejected with InvalidTokenException.
C3_SubscriptionCase ==
  \E i \in Invocations :
    /\ inv[i].event.type = EventType.ADDED_TO_SPACE
    /\ inv[i].raised = Err("InvalidTokenException", "createSpaceSubscription")
    /\ inv[i].reply.actionResponse.type = "REQUEST_CONFIG"

\* C4: a message-received invocation whose classifier response is a text that
\* does not contain "yes" in any case returns the empty reply {} having called
\* createOrUpdateMessage and then containsQuestion and nothing else: no
\* listMessages, no answerQuestion.
C4_NotAQuestion ==
  \A i \in Invocations :
    LET c == inv[i] IN
      (/\ c.event.type = EventType.MESSAGE
       /\ c.calls = <<"createOrUpdateMessage", "containsQuestion">>
       /\ Len(c.prediction) = 1
       /\ c.prediction[1] # undefined
       /\ ~includes(toLowerCase(c.prediction[1]), <<"y","e","s">>))
      => /\ c.pc = "returned"
         /\ c.reply = EmptyReply
         /\ c.raised = NoError

C4_Witness ==
  \E i \in Invocations :
    /\ inv[i].event.type = EventType.MESSAGE
    /\ inv[i].prediction = << <<"N","o">> >>
    /\ inv[i].pc = "returned"
    /\ inv[i].reply.keys = {}

\* C5: a message-received invocation classified as a question in which every
\* call resolved returns a reply whose text is what answerQuestion returned,
\* with exactly one button, "Get help", with thread: null and with no
\* actionResponse; also when the listed history is empty.
C5_QuestionAnswered ==
  \A i \in Invocations :
    LET c == inv[i] IN
      (/\ c.event.type = EventType.MESSAGE
       /\ c.calls = MessageCalls
       /\ c.raised = NoError)
      => /\ c.pc = "returned"
         /\ Len(c.prediction) = 1
         /\ c.reply.keys = {"text", "thread", "accessoryWidgets"}
         /\ c.reply.text = c.prediction[1]
         /\ c.reply.thread = "null"
         /\ Len(c.reply.accessoryWidgets) = 1
         /\ Len(c.reply.accessoryWidgets[1].buttonList.buttons) = 1
         /\ c.reply.accessoryWidgets[1].buttonList.buttons[1].text = "Get help"
         /\ c.reply.actionResponse = NoAction

C5_Witness ==
  \E i \in Invocations :
    /\ inv[i].event.type = EventType.MESSAGE
    /\ inv[i].calls = MessageCalls
    /\ inv[i].raised = NoError
    /\ inv[i].prompt = << Prompt("answerQuestion", <<>>, inv[i].event.message.text) >>
    /\ inv[i].reply.text = <<"N","o">>

\* C6: in a message-received invocation, a call that rejects with
\* InvalidTokenException (createOrUpdateMessage, containsQuestion,
\* listMessages or answerQuestion) makes the handler return the REQUEST_CONFIG
\* reply with the URL generated from the user and the redirect URL of the
\* event, the reply handleAddedToSpace gives, instead of failing; the rejected
\* call is the last call the invocation makes.
C6_MessageMissingCredential ==
  \A i \in Invocations :
    LET c == inv[i] IN
      (c.event.type = EventType.MESSAGE
         /\ c.raised.name = "InvalidTokenException")
      => /\ c.pc = "returned"
         /\ c.error = NoError
         /\ c.reply.keys = {"actionResponse"}
         /\ c.reply.actionResponse = RequestConfig(c)
         /\ c.reply.text = undefined
         /\ c.reply.accessoryWidgets = <<>>
         /\ IsPrefix(c.calls, MessageCalls)
         /\ c.raisedAt = Len(c.calls)

C6_Witness ==
  \E i \in Invocations :
    /\ inv[i].event.type = EventType.MESSAGE
    /\ inv[i].raised.name = "InvalidTokenException"
    /\ inv[i].calls = MessageCalls
    /\ inv[i].reply.actionResponse.type = "REQUEST_CONFIG"

\* C7: in every handler, a call that rejects with an error other than
\* InvalidTokenException makes the invocation reject with that very error,
\* at that call: it resolves to no reply at all.
C7_OtherFailuresPropagate ==
  \A i \in Invocations :
    LET c == inv[i] IN
      /\ (c.raised # NoError /\ c.raised.name # "InvalidTokenException")
         => /\ c.pc = "thrown"
            /\ c.error = c.raised
            /\ c.raisedAt = Len(c.calls)
            /\ c.reply = EmptyReply
      /\ c.pc = "thrown" => (c.error = c.raised /\ c.raised # NoError)

C7_Witness ==
  \E i, j \in Invocations :
    /\ inv[i].pc = "thrown"
    /\ inv[i].error = Err("Error", "createOrUpdateMessages")
    /\ inv[j].pc = "thrown"
    /\ inv[j].error = Err("TypeError", "callPredict")

\* C8: the store holds at most one message record per message name, and the
\* step in which a message-received invocation saves its message leaves
\* exactly one record with the name of the message of the event, holding the
\* text of that event, and leaves the records with other names as they were.
RecordsNamed(msgs, name) == { k \in 1..Len(msgs) : msgs[k].name = name }

C8_UpsertByMessageName ==
  /\ [](\A s \in Spaces : \A n \in MessageNames :
          Cardinality(RecordsNamed(messages[s], n)) <= 1)
  /\ [][\A i \in Invocations :
          (inv[i].pc = "createOrUpdateMessage" /\ inv'[i].pc = "containsQuestion")
          => LET m == inv[i].event.message
                 before == messages[inv[i].event.space]
                 after == messages'[inv[i].event.space]
             IN /\ Cardinality(RecordsNamed(after, m.name)) = 1
                /\ \A k \in RecordsNamed(after, m.name) : after[k].text = m.text
                /\ \A n \in MessageNames \ {m.name} :
                     { after[k] : k \in RecordsNamed(after, n) } =
                       { before[k] : k \in RecordsNamed(before, n) }
                /\ Len(after) = Len(before) +
                     (IF RecordsNamed(before, m.name) = {} THEN 1 ELSE 0)]_vars

\* The same message name was delivered twice, the second time edited, and
\* both deliveries were saved.
C8_Witness ==
  \E i, j \in Invocations :
    /\ i # j
    /\ inv[i].event.type = EventType.MESSAGE
    /\ inv[j].event.type = EventType.MESSAGE
    /\ inv[i].event.space = inv[j].event.space
    /\ inv[i].event.message.name = inv[j].event.message.name
    /\ inv[i].event.message.text # inv[j].event.message.text
    /\ inv[i].pc = "returned" /\ inv[i].raised = NoError
    /\ inv[j].pc = "containsQuestion"
    /\ messages[inv[j].event.space] =
         << Message(inv[j].event.message.name, inv[j].event.message.text,
                    inv[j].event.message.createTime) >>

\* C9: a space-left invocation calls deleteSpaceSubscriptions first and
\* calls deleteSpace only after deleteSpaceSubscriptions resolved; a space
\* document is removed from the store only by the deleteSpace of such an
\* invocation.
C9_SubscriptionsBeforeSpace ==
  /\ [](\A i \in Invocations :
          LET c == inv[i] IN
            c.event.type = EventType.REMOVED_FROM_SPACE
            => /\ IsPrefix(c.calls, RemovedFromSpaceCalls)
               /\ Len(c.calls) = 2 => c.raisedAt # 1)
  /\ [][\A s \in Spaces :
          (s \in spaces /\ s \notin spaces')
          => \E i \in Invocations :
               /\ inv[i].event.type = EventType.REMOVED_FROM_SPACE
               /\ inv[i].event.space = s
               /\ inv[i].calls = <<"deleteSpaceSubscriptions">>
               /\ inv[i].raised = NoError
               /\ inv'[i].calls = RemovedFromSpaceCalls]_vars

\* A space that was joined and subscribed is left.
C9_Witness ==
  \E i, j \in Invocations :
    /\ inv[i].event.type = EventType.ADDED_TO_SPACE
    /\ inv[i].pc = "returned"
    /\ inv[i].calls = AddedToSpaceCalls
    /\ inv[j].event.type = EventType.REMOVED_FROM_SPACE
    /\ inv[j].pc = "returned"
    /\ inv[j].calls = RemovedFromSpaceCalls
    /\ spaces = {}
    /\ subscriptions = {}

\* C10: whether or not the app holds a token of the removing user, a
\* space-left invocation never returns the REQUEST_CONFIG reply and never
\* rejects with InvalidTokenException: it makes no call with the credentials
\* of the user, every reply it returns is the empty reply {}, and it returns
\* it whenever both deletions resolve.
C10_RemovedNeedsNoCredential ==
  \A i \in Invocations :
    LET c == inv[i] IN
      c.event.type = EventType.REMOVED_FROM_SPACE
      => /\ c.reply = EmptyReply
         /\ c.error.name # "InvalidTokenException"
         /\ \A k \in 1..Len(c.calls) : c.calls[k] \notin DelegatedCalls
         /\ (c.calls = RemovedFromSpaceCalls /\ c.raised = NoError)
              => c.pc = "returned"
         /\ c.pc = "thrown" => c.error = c.raised

C10_Witness ==
  \E i \in Invocations :
    /\ inv[i].event.type = EventType.REMOVED_FROM_SPACE
    /\ inv[i].event.user \notin authorized
    /\ inv[i].pc = "returned"
    /\ inv[i].reply.keys = {}
    /\ inv[i].calls = RemovedFromSpaceCalls

\* C11: a card-clicked invocation whose listSpaceManager resolved to a name X
\* returns the text "<X> Please answer the question above."; one whose
\* listSpaceManager resolved to no name returns exactly "Please answer the
\* question above."; either reply has the key text and no other, and the
\* invocation calls listSpaceManager only: it makes no store call and sends
\* no prompt, and its step leaves the store as it was.
C11_CardClickedMention ==
  /\ [](\A i \in Invocations :
          LET c == inv[i] IN
            (c.event.type = EventType.CARD_CLICKED /\ Len(c.spaceManager) = 1)
            => /\ c.pc = "returned"
               /\ c.reply.keys = {"text"}
               /\ c.reply.actionResponse = NoAction
               /\ c.reply.accessoryWidgets = <<>>
               /\ c.spaceManager[1] # undefined
                    => c.reply.text =
                         <<"<">> \o c.spaceManager[1] \o <<">", " ">> \o
                         <<"P","l","e","a","s","e"," ","a","n","s","w","e","r"," ",
                           "t","h","e"," ","q","u","e","s","t","i","o","n"," ",
                           "a","b","o","v","e",".">>
               /\ c.spaceManager[1] = undefined
                    => c.reply.text =
                         <<"P","l","e","a","s","e"," ","a","n","s","w","e","r"," ",
                           "t","h","e"," ","q","u","e","s","t","i","o","n"," ",
                           "a","b","o","v","e",".">>
               /\ c.calls = <<"listSpaceManager">>
               /\ c.prompt = <<>>)
  /\ [][\A i \in Invocations :
          (inv[i].pc = "listSpaceManager" /\ inv'[i].pc # "listSpaceManager")
          => <<spaces, messages, subscriptions>>' = <<spaces, messages, subscriptions>>]_vars

C11_Witness ==
  \E i, j \in Invocations :
    /\ inv[i].event.type = EventType.CARD_CLICKED
    /\ inv[i].spaceManager = << <<"u","s","e","r","s","/","9">> >>
    /\ inv[i].reply.text[1] = "<"
    /\ inv[j].event.type = EventType.CARD_CLICKED
    /\ inv[j].spaceManager = << undefined >>
    /\ inv[j].reply.text = PleaseAnswerText

\* C12: every reply an invocation returns has exactly one of four shapes:
\* the empty object; a reply with the key text only; a reply with the keys
\* text, thread and accessoryWidgets holding the one "Get help" button; a
\* reply with the key actionResponse only, of type REQUEST_CONFIG with a URL.
\* No reply has actionResponse together with text or a button.
IsEmptyShape(r) == r = EmptyReply

IsTextShape(r) ==
  /\ r.keys = {"text"}
  /\ r.text # undefined
  /\ r.thread = "undefined" /\ r.accessoryWidgets = <<>>
  /\ r.actionResponse = NoAction

IsButtonShape(r) ==
  /\ r.keys = {"text", "thread", "accessoryWidgets"}
  /\ Len(r.accessoryWidgets) = 1
  /\ Len(r.accessoryWidgets[1].buttonList.buttons) = 1
  /\ r.accessoryWidgets[1].buttonList.buttons[1].onClick = "doContactSupport"
  /\ r.actionResponse = NoAction

IsRequestConfigShape(r) ==
  /\ r.keys = {"actionResponse"}
  /\ r.actionResponse.type = "REQUEST_CONFIG"
  /\ Len(r.actionResponse.url) > 0
  /\ r.text = undefined /\ r.thread = "undefined" /\ r.accessoryWidgets = <<>>

ShapesOf(r) ==
  { k \in 1..4 :
      \/ k = 1 /\ IsEmptyShape(r)
      \/ k = 2 /\ IsTextShape(r)
      \/ k = 3 /\ IsButtonShape(r)
      \/ k = 4 /\ IsRequestConfigShape(r) }

NamesOf(msgs) == { msgs[k].name : k \in 1..Len(msgs) }

C13_MessagesOnlyRemovedWithSpace ==
  [][\A s \in Spaces :
       \/ NamesOf(messages[s]) \subseteq NamesOf(messages'[s])
       \/ /\ messages'[s] = <<>>
          /\ \E i \in Invocations :
               /\ inv[i].event.type = EventType.REMOVED_FROM_SPACE
               /\ inv[i].event.space = s
               /\ inv[i].pc = "deleteSpace"
               /\ inv'[i].pc = "returned"]_vars

\* A message was saved, and then the space was left and its messages went.
C13_Witness ==
  \E i, j \in Invocations :
    /\ inv[i].event.type = EventType.MESSAGE
    /\ Len(inv[i].calls) >= 1 /\ inv[i].raisedAt # 1
    /\ inv[j].event.type = EventType.REMOVED_FROM_SPACE
    /\ inv[j].event.space = inv[i].event.space
    /\ inv[j].pc = "returned"
    /\ messages[inv[i].event.space] = <<>>

\* C14: in every reachable state, every stored message belongs to a space
\* whose document exists.
C14_MessagesHaveConversation ==
  \A s \in Spaces : messages[s] # <<>> => s \in spaces

\* Reachability of the interleaving in which a message outlives its space: a
\* space-left invocation has deleted the space and returned, and the
\* createOrUpdateMessage of a message-received invocation that was in flight
\* saved its message afterwards.
C14_SavedAfterSpaceLeft ==
  \E i, j \in Invocations :
    /\ inv[i].event.type = EventType.MESSAGE
    /\ inv[i].pc = "containsQuestion"
    /\ inv[j].event.type = EventType.REMOVED_FROM_SPACE
    /\ inv[j].event.space = inv[i].event.space
    /\ inv[j].pc = "returned"
    /\ inv[i].event.space \notin spaces
    /\ Len(messages[inv[i].event.space]) = 1

\* C15: a message-received invocation makes its calls in the order
\* createOrUpdateMessage, containsQuestion, listMessages, answerQuestion, one
\* at a time.  The message it saved is in the store when that call resolves,
\* only a step of another invocation for the same space takes it out again,
\* listMessages hands the handler the stored messages of that moment, and
\* answerQuestion puts their texts into the prompt: so, when no other
\* invocation for the space takes a step in between, the history given to
\* answerQuestion contains the message of the event.
SavedMessage(c) ==
  Message(c.event.message.name, c.event.message.text, c.event.message.createTime)

Holds(msgs, m) == \E k \in 1..Len(msgs) : msgs[k] = m

C15_StepsInOrder ==
  /\ [](\A i \in Invocations :
          LET c == inv[i] IN
            c.event.type = EventType.MESSAGE
            => /\ IsPrefix(c.calls, MessageCalls)
               /\ c.pc = "containsQuestion" => c.calls = SubSeq(MessageCalls, 1, 1)
               /\ c.pc = "listMessages" => c.calls = SubSeq(MessageCalls, 1, 2)
               /\ c.pc = "answerQuestion" => c.calls = SubSeq(MessageCalls, 1, 3)
               /\ (c.pc = "answerQuestion" /\ nEvents = 1)
                    => Holds(c.allMessages, SavedMessage(c)))
  /\ [][\A i \in Invocations :
          LET c == inv[i]
              d == inv'[i]
              s == c.event.space
              m == SavedMessage(c)
          IN c.event.type = EventType.MESSAGE
             => /\ (c.pc = "createOrUpdateMessage" /\ d.pc = "containsQuestion")
                     => Holds(messages'[s], m)
                /\ (c.pc \in {"containsQuestion", "listMessages"}
                      /\ Holds(messages[s], m) /\ ~Holds(messages'[s], m))
                     => \E j \in Invocations \ {i} :
                          inv[j].event.space = s /\ inv'[j] # inv[j]
                /\ (c.pc = "listMessages" /\ d.pc = "answerQuestion"
                      /\ Holds(messages[s], m))
                     => Holds(d.allMessages, m)
                /\ (c.pc = "answerQuestion" /\ d.pc # "answerQuestion"
                      /\ Holds(c.allMessages, m))
                     => /\ Len(d.prompt) = 1
                        /\ d.prompt[1].question = m.text
                        /\ includes(d.prompt[1].messageText, m.text)]_vars

\* The only event of the behaviour is a question, and it was answered from a
\* history that holds it.
C15_Witness ==
  \E i \in Invocations :
    /\ nEvents = 1
    /\ inv[i].event.type = EventType.MESSAGE
    /\ inv[i].pc = "returned"
    /\ inv[i].calls = MessageCalls
    /\ inv[i].raised = NoError
    /\ inv[i].prompt[1].messageText = inv[i].event.message.text

\* C16: two message-received events for the same space, processed in
\* interleaved invocations and with no other event delivered: once both have
\* saved their message, the store holds exactly one record for a name they
\* share, with the text of one of the two events, and a record for each of two
\* different names; and no step of a message-received invocation takes the
\* record of any name out of the store.
Upserted(c) ==
  /\ c.event.type = EventType.MESSAGE
  /\ \/ Len(c.calls) >= 2
     \/ Len(c.calls) = 1 /\ c.pc = "containsQuestion"

C16_ConcurrentUpserts ==
  /\ [](\A i, j \in Invocations :
          (i # j /\ nEvents = 2 /\ Upserted(inv[i]) /\ Upserted(inv[j])
             /\ inv[i].event.space = inv[j].event.space)
          => LET msgs == messages[inv[i].event.space]
                 mi == inv[i].event.message
                 mj == inv[j].event.message
             IN /\ Cardinality(RecordsNamed(msgs, mi.name)) = 1
                /\ Cardinality(RecordsNamed(msgs, mj.name)) = 1
                /\ mi.name = mj.name
                     => /\ Len(msgs) = 1
                        /\ msgs[1].text \in {mi.text, mj.text}
                /\ mi.name # mj.name
                     => /\ Len(msgs) = 2
                        /\ Holds(msgs, SavedMessage(inv[i]))
                        /\ Holds(msgs, SavedMessage(inv[j])))
  /\ [][\A i \in Invocations :
          (inv[i].event.type = EventType.MESSAGE /\ inv'[i] # inv[i]
             /\ \A j \in Invocations \ {i} : inv'[j] = inv[j])
          => \A s \in Spaces : NamesOf(messages[s]) \subseteq NamesOf(messages'[s])]_vars

\* Both invocations have saved a message of the same name with different
\* texts, the second before the first went on.
C16_Witness ==
  \E i, j \in Invocations :
    /\ i # j /\ nEvents = 2
    /\ inv[i].pc = "containsQuestion" /\ inv[j].pc = "containsQuestion"
    /\ Upserted(inv[i]) /\ Upserted(inv[j])
    /\ inv[i].event.space = inv[j].event.space
    /\ inv[i].event.message.name = inv[j].event.message.name
    /\ inv[i].event.message.text # inv[j].event.message.text
    /\ Len(messages[inv[i].event.space]) = 1

\* Both invocations have saved messages of different names.
C16_DifferentNames ==
  \E i, j \in Invocations :
    /\ i # j /\ nEvents = 2
    /\ Upserted(inv[i]) /\ Upserted(inv[j])
    /\ inv[i].event.message.name # inv[j].event.message.name
    /\ Len(messages[inv[i].event.space]) = 2

\* C17: containsQuestion returns true exactly when the text that callPredict
\* returned holds the letters y, e, s in a row, in either case, anywhere (so
\* for "Yesterday" too), and false for every other text: after the
\* classification of a text the handler goes on to listMessages in the first
\* case and has returned the empty reply in the second.
ContainsYes(t) ==
  \E k \in 1..(Len(t) - 2) :
    t[k] \in {"y", "Y"} /\ t[k + 1] \in {"e", "E"} /\ t[k + 2] \in {"s", "S"}

Classified(c) ==
  /\ c.event.type = EventType.MESSAGE
  /\ c.calls = SubSeq(MessageCalls, 1, 2)
  /\ Len(c.prediction) = 1

C17_YesAnywhere ==
  \A i \in Invocations :
    LET c == inv[i] IN
      Classified(c)
      => /\ (c.pc = "listMessages" /\ c.hasQuestion)
              <=> (c.prediction[1] # undefined /\ ContainsYes(c.prediction[1]))
         /\ (c.prediction[1] # undefined /\ ~ContainsYes(c.prediction[1]))
              => (c.pc = "returned" /\ c.reply = EmptyReply /\ c.raised = NoError)
         /\ c.prediction[1] = <<"Y","e","s","t","e","r","d","a","y">>
              => c.pc = "listMessages"
         /\ c.prediction[1] \in { <<"N","o">>, <<"y","e"," ","s">> }
              => c.pc = "returned"

\* A response with the word in capitals inside it was classified as a question.
C17_Witness ==
  \E i \in Invocations :
    /\ Classified(inv[i])
    /\ inv[i].prediction[1] = <<"o","h"," ","Y","E","S">>
    /\ inv[i].pc = "listMessages"
    /\ inv[i].hasQuestion

\* A response that holds the letters, but not in a row, was classified as no
\* question.
C17_OtherResponse ==
  \E i \in Invocations :
    /\ Classified(inv[i])
    /\ inv[i].prediction[1] = <<"y","e"," ","s">>
    /\ inv[i].pc = "returned"
    /\ inv[i].reply = EmptyReply

\* C18: callPredict fails when the backend call rejects, when the response
\* has no candidate and when the first candidate has no part.
C18_FailsWithoutPart ==
  \A result \in GenerateResults :
    (\/ result.rejected
     \/ Len(result.candidates) = 0
     \/ Len(result.candidates[1].content.parts) = 0)
    => callPredict(<<>>, result).threw

\* C18: callPredict never returns a value that is no text as a prediction,
\* and the reply answerQuestion leads to never has an absent text.
C18_PredictionIsText ==
  \A i \in Invocations :
    /\ Len(inv[i].prediction) = 1 => inv[i].prediction[1] # undefined
    /\ (inv[i].pc = "returned" /\ "text" \in inv[i].reply.keys)
         => inv[i].reply.text # undefined

\* The first part of the first candidate had no text: answerQuestion resolved
\* to undefined and the handler returned the reply with the button and a text
\* that is undefined.
C18_AbsentText ==
  \E i \in Invocations :
    /\ inv[i].event.type = EventType.MESSAGE
    /\ inv[i].calls = MessageCalls
    /\ inv[i].raised = NoError
    /\ inv[i].pc = "returned"
    /\ inv[i].prediction = <<undefined>>
    /\ inv[i].reply = AnswerReply(undefined)

\* C19: the context answerQuestion puts into its prompt is the texts of the
\* messages it was given, in their order, each two consecutive texts with two
\* line breaks between them and nothing else; for no messages the context is
\* empty, and the prompt is sent to callPredict all the same.
RECURSIVE OffsetOf(_, _)
OffsetOf(msgs, k) ==
  IF k = 1 THEN 0 ELSE OffsetOf(msgs, k - 1) + Len(msgs[k - 1].text) + 2

IsContextOf(context, msgs) ==
  IF Len(msgs) = 0 THEN Len(context) = 0
  ELSE /\ Len(context) = OffsetOf(msgs, Len(msgs)) + Len(msgs[Len(msgs)].text)
       /\ \A k \in 1..Len(msgs) :
            /\ \A j \in 1..Len(msgs[k].text) :
                 context[OffsetOf(msgs, k) + j] = msgs[k].text[j]
            /\ k > 1 => /\ context[OffsetOf(msgs, k) - 1] = "\n"
                        /\ context[OffsetOf(msgs, k)] = "\n"

C19_ContextIsJoinedHistory ==
  [][\A i \in Invocations :
       (inv[i].pc = "answerQuestion" /\ inv'[i].pc # "answerQuestion")
       => /\ inv'[i].calls = MessageCalls
          /\ Len(inv'[i].prompt) = 1
          /\ inv'[i].prompt[1].template = "answerQuestion"
          /\ inv'[i].prompt[1].question = inv[i].event.message.text
          /\ IsContextOf(inv'[i].prompt[1].messageText, inv[i].allMessages)]_vars

\* A question was answered from a history of two messages.
C19_Witness ==
  \E i \in Invocations :
    /\ inv[i].event.type = EventType.MESSAGE
    /\ inv[i].calls = MessageCalls
    /\ inv[i].pc = "returned"
    /\ Len(inv[i].prediction) = 1
    /\ inv[i].prompt[1].messageText = <<"h","i","\n","\n","w","h","y","?">>

\* A question was answered from an empty history.
C19_EmptyHistory ==
  \E i \in Invocations :
    /\ inv[i].event.type = EventType.MESSAGE
    /\ inv[i].calls = MessageCalls
    /\ inv[i].pc = "returned"
    /\ Len(inv[i].prediction) = 1
    /\ inv[i].prompt[1].messageText = <<>>

\* C20: the step in which a space-joined invocation returns the
\* REQUEST_CONFIG reply, or the welcome text, leaves the space documents as
\* they are, so the document made by createSpace stays; createSpace can
\* resolve whether or not the space has a document, and leaves the space with
\* its one document and the other spaces as they were.  So when only
\* space-joined events have been delivered, a space whose join ended in the
\* REQUEST_CONFIG reply has its document, and so has the space of a join that
\* went through all four calls and returned the welcome text.
AuthRequested(c) ==
  /\ c.event.type = EventType.ADDED_TO_SPACE
  /\ c.pc = "returned"
  /\ c.reply.actionResponse = RequestConfig(c)

Welcomed(c) ==
  /\ c.event.type = EventType.ADDED_TO_SPACE
  /\ c.pc = "returned"
  /\ c.reply.keys = {"text"}
  /\ c.reply.text = WelcomeText

OnlyJoins ==
  /\ nEvents = Cardinality({ i \in Invocations : inv[i].pc # "idle" })
  /\ \A i \in Invocations :
       inv[i].pc # "idle" => inv[i].event.type = EventType.ADDED_TO_SPACE

C20_JoinAgainAfterAuthorization ==
  /\ [](/\ OnlyJoins
          => \A i \in Invocations :
               (AuthRequested(inv[i]) \/ Welcomed(inv[i]))
               => /\ inv[i].event.space \in spaces
                  /\ Cardinality({ s \in spaces : s = inv[i].event.space }) = 1
                  /\ Welcomed(inv[i])
                       => /\ inv[i].calls = AddedToSpaceCalls
                          /\ inv[i].raised = NoError
        /\ \A i \in Invocations :
             (inv[i].event.type = EventType.ADDED_TO_SPACE
                /\ inv[i].pc = "createSpace")
             => ENABLED (/\ handleAddedToSpace_createSpace(i)
                         /\ inv'[i].pc = "listUserMessages"))
  /\ [][\A i \in Invocations :
          inv[i].event.type = EventType.ADDED_TO_SPACE
          => /\ (inv[i].pc = "createSpace" /\ inv'[i].pc = "listUserMessages")
                  => spaces' = spaces \cup {inv[i].event.space}
             /\ (inv[i].pc # "returned"
                   /\ (AuthRequested(inv'[i]) \/ Welcomed(inv'[i])))
                  => (spaces' = spaces /\ messages' = messages)]_vars

\* A join ended in the REQUEST_CONFIG reply, the user authorized the app, and
\* a second join for the space returned the welcome text.
C20_Witness ==
  \E i, j \in Invocations :
    /\ OnlyJoins /\ nEvents = 2
    /\ AuthRequested(inv[i])
    /\ inv[i].raised.call = "listUserMessages"
    /\ Welcomed(inv[j])
    /\ inv[j].event.space = inv[i].event.space
    /\ inv[j].event.user = inv[i].event.user
    /\ inv[j].event.user \in authorized
    /\ spaces = {inv[i].event.space}

====
